---- MODULE Spec2Model ----
(***************************************************************************)
(* Model of aif360/algorithms/inprocessing/gerryfair/reg_oracle_class.py:  *)
(* the three predictors RegOracle, RandomLinearThresh and LinearThresh.    *)
(*                                                                         *)
(* One behaviour follows one predictor object from the end of its          *)
(* constructor through any number of predict calls.  A predict call is     *)
(* modelled statement by statement: the call prologue, RegOracle's         *)
(* pdb.set_trace(), each pass of the per-row loop, and the return.         *)
(*                                                                         *)
(* Weights are rationals with denominator Grid and are stored as their     *)
(* numerators: the weight 1 is Grid, the weight -1 is -Grid.  The sign of  *)
(* a dot product is the sign of the dot product of the numerators.         *)
(***************************************************************************)
EXTENDS Integers, Sequences, FiniteSets, TLC

\* ---------------------------------------------------------------- bounds
MaxRows == 2
MaxCols == 2
Grid == 3
MaxCost == 1

\* ---------------------------------------------------------------- inputs
\* A cell of a dataset is a number or a value that is no number (a string).
Num(k) == [num |-> TRUE, v |-> k]
NonNumeric == [num |-> FALSE, v |-> 0]
Cells == {Num(1), Num(2), NonNumeric}
Rows(c) == [1..c -> Cells]
Tables == UNION {[1..r -> Rows(c)] : r \in 0..MaxRows, c \in 1..MaxCols}
StringCells(D) ==
  {rc \in (DOMAIN D) \X (1..MaxCols) :
     rc[2] <= Len(D[rc[1]]) /\ ~D[rc[1]][rc[2]].num}
\* The datasets passed to predict: every rectangular table within the
\* bounds that holds at most one non-numeric cell
Datasets == {D \in Tables : Cardinality(StringCells(D)) <= 1}
Example == <<<<Num(2), Num(1)>>, <<Num(1), Num(2)>>>>
Models == {"regA", "regB"}
Costs == 0..MaxCost
ModelErrors == {"ValueError", "KeyError"}
CallerWeights == {-Grid, 0, Grid}
NoQuery == [reg |-> "none", row |-> 0, arg |-> <<>>, cost |-> 0, raised |-> "none"]
NoResult == [set |-> FALSE, err |-> "none", ret |-> <<>>]

\* ----------------------------------------------------------------- state
\* The predictor object:
\*   kind         its class
\*   b0, b1       RegOracle's two regression model objects
\*   coefficient  a reference into heap: "d" is the list object the caller
\*                passed to LinearThresh, "fresh" the list the comprehension
\*                of RandomLinearThresh built, "none" for RegOracle
\*   heap         the contents of the two list objects
\* The frame of the running predict call:
\*   X, reg0, reg1, beta, n, i, y, c_0, c_1 and pc, its position
\*   err          the exception that left the call ("none": no exception)
\*   ret          <<>> while nothing was returned, <<y>> once y was returned
\* History, for stating the properties:
\*   d_arg, ndraws   RandomLinearThresh's argument d and the number of
\*                   np.random.uniform draws made so far
\*   coef0, b0_init, b1_init   the object's fields at the end of __init__
\*   X_in            the dataset as it was when the call began
\*   q0, q1          the latest query put to reg0 and to reg1
\*   seen            the outcome of the first finished call on Example
VARIABLES kind, b0, b1, coefficient, heap, d_arg, ndraws, coef0, b0_init,
          b1_init, X, X_in, pc, reg0, reg1, beta, n, i, y, c_0, c_1, q0, q1,
          err, ret, seen

vars == <<kind, b0, b1, coefficient, heap, d_arg, ndraws, coef0, b0_init,
          b1_init, X, X_in, pc, reg0, reg1, beta, n, i, y, c_0, c_1, q0, q1,
          err, ret, seen>>

object == <<kind, b0, b1, coefficient, d_arg, coef0, b0_init, b1_init>>

\* ------------------------------------------------------- pure operations
\* X.shape[0]
shape0(D) == Len(D)

\* Mutant of iloc: rows are read from the last one backwards
iloc_reversed(D, k) == D[Len(D) - k]

\* X.iloc[k, :], k counted from 0
iloc(D, k) == D[k + 1]

\* x_i.values.reshape(1, -1): a 1 x d array holding the row
reshape_row(x) == <<x>>

RECURSIVE SumProd(_, _, _)
SumProd(w, x, k) ==
  IF k = 0 THEN 0 ELSE SumProd(w, x, k - 1) + w[k] * x[k].v

\* np.dot(beta, x_i) of two 1-D operands: ValueError (shapes not aligned)
\* when the lengths differ; TypeError when the row holds a value that is no
\* number (a float weight times a string raises inside the product; with
\* integer weights the product or sum raises, or yields a string on which
\* the comparison c_1 < 0 of the next line raises: the same exception out
\* of the same pass of the loop); else the sum of the products
\* Mutant of np_dot: operands of different lengths are cut to the shorter one
np_dot_truncating(w, x) ==
  LET m == IF Len(w) < Len(x) THEN Len(w) ELSE Len(x) IN
    IF \E k \in 1..Len(x) : ~x[k].num
      THEN [raised |-> "TypeError", v |-> 0]
      ELSE [raised |-> "none", v |-> SumProd(w, x, m)]

np_dot(w, x) ==
  IF Len(w) # Len(x)
    THEN [raised |-> "ValueError", v |-> 0]
    ELSE IF \E k \in 1..Len(x) : ~x[k].num
      THEN [raised |-> "TypeError", v |-> 0]
      ELSE [raised |-> "none", v |-> SumProd(w, x, Len(w))]

\* Mutant of RegLabel: a tie gets label 1
RegLabel_le(c1, c0) == IF c1 <= c0 THEN 1 ELSE 0

\* int(c_1 < c_0)
RegLabel(c1, c0) == IF c1 < c0 THEN 1 ELSE 0

\* int(c_1 < 0) in RandomLinearThresh.predict
RLT_label(c) == IF c < 0 THEN 1 ELSE 0

\* Mutant of LT_label: a dot product of 0 gets label 1
LT_label_le(c) == IF c <= 0 THEN 1 ELSE 0

\* int(c_1 < 0) in LinearThresh.predict
LT_label(c) == IF c < 0 THEN 1 ELSE 0

\* Mutant of random_sample: the upper end 1 can be drawn
random_sample_closed == 0..Grid

\* The generator's random_sample() lies in [0, 1): u / Grid for u below Grid
random_sample == 0..(Grid - 1)

\* np.random.uniform(low, high) = low + (high - low) * random_sample(),
\* on numerators over Grid
np_random_uniform(low, high, u) == low + ((high - low) * u) \div Grid

\* [np.random.uniform(-1, 1) for _ in range(d)]
RandomLinearThresh_init(d, u) ==
  [k \in 1..d |-> np_random_uniform(-Grid, Grid, u[k])]

\* The list self.coefficient refers to
Beta == IF coefficient = "none" THEN <<>> ELSE heap[coefficient]

\* ------------------------------------------------------------------ Init
NoCall ==
  /\ X = <<>> /\ X_in = <<>> /\ pc = "idle"
  /\ reg0 = "none" /\ reg1 = "none" /\ beta = "none"
  /\ n = 0 /\ i = 0 /\ y = <<>> /\ c_0 = 0 /\ c_1 = 0
  /\ q0 = NoQuery /\ q1 = NoQuery
  /\ err = "none" /\ ret = <<>> /\ seen = NoResult

\* RegOracle(b0, b1), built from two distinct regression model objects
InitRegOracle ==
  \E m0 \in Models, m1 \in Models :
    /\ m0 # m1
    /\ kind = "RegOracle"
    /\ b0 = m0 /\ b1 = m1
    /\ b0_init = m0 /\ b1_init = m1
    /\ coefficient = "none"
    /\ heap = [d |-> <<>>, fresh |-> <<>>]
    /\ d_arg = 0 /\ ndraws = 0 /\ coef0 = <<>>

\* RandomLinearThresh(d)
InitRandomLinearThresh ==
  \E dim \in 0..MaxCols :
    \E u \in [1..dim -> random_sample] :
      /\ kind = "RandomLinearThresh"
      /\ b0 = "none" /\ b1 = "none" /\ b0_init = "none" /\ b1_init = "none"
      /\ coefficient = "fresh"
      /\ heap = [d |-> <<>>, fresh |-> RandomLinearThresh_init(dim, u)]
      /\ d_arg = dim /\ ndraws = dim
      /\ coef0 = RandomLinearThresh_init(dim, u)

\* LinearThresh(d): self.coefficient is the caller's list object itself
InitLinearThresh ==
  \E len \in 0..MaxCols :
    \E w \in [1..len -> CallerWeights] :
      /\ kind = "LinearThresh"
      /\ b0 = "none" /\ b1 = "none" /\ b0_init = "none" /\ b1_init = "none"
      /\ coefficient = "d"
      /\ heap = [d |-> w, fresh |-> <<>>]
      /\ d_arg = 0 /\ ndraws = 0
      /\ coef0 = w

Init ==
  /\ NoCall
  /\ \/ InitRegOracle
     \/ InitRandomLinearThresh
     \/ InitLinearThresh

\* ------------------------------------------------------------- RegOracle
\* A predict call may begin whenever no call is running.
Callable == pc = "idle"

\* The frame of a call that has just begun on Xin: y = [], nothing queried,
\* nothing raised, nothing returned
NewFrame(Xin) ==
  /\ X' = Xin /\ X_in' = Xin
  /\ n' = shape0(Xin)
  /\ i' = 0 /\ y' = <<>> /\ c_0' = 0 /\ c_1' = 0
  /\ q0' = NoQuery /\ q1' = NoQuery
  /\ err' = "none" /\ ret' = <<>>

\* RegOracle.predict, lines 23-27: reg0, reg1, n, y, then pdb.set_trace()
\* hands control to the interactive debugger
Reg_Call ==
  /\ kind = "RegOracle" /\ Callable
  /\ \E Xin \in Datasets : NewFrame(Xin)
  /\ reg0' = b0 /\ reg1' = b1 /\ beta' = "none"
  /\ pc' = "pdb"
  /\ UNCHANGED <<object, heap, ndraws, seen>>

\* The debugger's user resumes the program ("continue")
Pdb_Continue ==
  /\ pc = "pdb"
  /\ pc' = "loop"
  /\ UNCHANGED <<object, heap, ndraws, seen, X, X_in, reg0, reg1, beta, n, i,
                 y, c_0, c_1, q0, q1, err, ret>>

\* The debugger's user quits ("quit", or end of input on stdin): bdb raises
\* BdbQuit out of predict
Pdb_Quit ==
  /\ pc = "pdb"
  /\ pc' = "error" /\ err' = "BdbQuit"
  /\ UNCHANGED <<object, heap, ndraws, seen, X, X_in, reg0, reg1, beta, n, i,
                 y, c_0, c_1, q0, q1, ret>>

\* Mutant of Reg_Query0: an exception of reg0 is swallowed and the pass goes on
Reg_Query0_swallow ==
  /\ kind = "RegOracle" /\ pc = "loop" /\ i < n
  /\ LET x_i == reshape_row(iloc(X, i)) IN
       \/ \E c \in Costs :
            /\ q0' = [reg |-> reg0, row |-> i, arg |-> x_i, cost |-> c,
                      raised |-> "none"]
            /\ c_0' = c
       \/ \E e \in ModelErrors :
            /\ q0' = [reg |-> reg0, row |-> i, arg |-> x_i, cost |-> 0,
                      raised |-> e]
            /\ c_0' = 0
  /\ pc' = "q1"
  /\ UNCHANGED <<object, heap, ndraws, seen, X, X_in, reg0, reg1, beta, n, i,
                 y, c_1, q1, err, ret>>

\* Lines 28-31: x_i = X.iloc[i, :].values.reshape(1, -1); c_0 = reg0.predict(x_i).
\* The regression model is an outside object: it answers with any cost, or
\* raises.
Reg_Query0 ==
  /\ kind = "RegOracle" /\ pc = "loop" /\ i < n
  /\ LET x_i == reshape_row(iloc(X, i)) IN
       \/ \E c \in Costs :
            /\ q0' = [reg |-> reg0, row |-> i, arg |-> x_i, cost |-> c,
                      raised |-> "none"]
            /\ c_0' = c /\ pc' = "q1" /\ err' = err
       \/ \E e \in ModelErrors :
            /\ q0' = [reg |-> reg0, row |-> i, arg |-> x_i, cost |-> 0,
                      raised |-> e]
            /\ c_0' = c_0 /\ pc' = "error" /\ err' = e
  /\ UNCHANGED <<object, heap, ndraws, seen, X, X_in, reg0, reg1, beta, n, i,
                 y, c_1, q1, ret>>

\* Line 32: c_1 = reg1.predict(x_i)
Reg_Query1 ==
  /\ kind = "RegOracle" /\ pc = "q1"
  /\ LET x_i == reshape_row(iloc(X, i)) IN
       \/ \E c \in Costs :
            /\ q1' = [reg |-> reg1, row |-> i, arg |-> x_i, cost |-> c,
                      raised |-> "none"]
            /\ c_1' = c /\ pc' = "append" /\ err' = err
       \/ \E e \in ModelErrors :
            /\ q1' = [reg |-> reg1, row |-> i, arg |-> x_i, cost |-> 0,
                      raised |-> e]
            /\ c_1' = c_1 /\ pc' = "error" /\ err' = e
  /\ UNCHANGED <<object, heap, ndraws, seen, X, X_in, reg0, reg1, beta, n, i,
                 y, c_0, q0, ret>>

\* Lines 33-34: y_i = int(c_1 < c_0); y.append(y_i); on to the next i
Reg_Append ==
  /\ kind = "RegOracle" /\ pc = "append"
  /\ y' = Append(y, RegLabel(c_1, c_0))
  /\ i' = i + 1
  /\ pc' = "loop"
  /\ UNCHANGED <<object, heap, ndraws, seen, X, X_in, reg0, reg1, beta, n,
                 c_0, c_1, q0, q1, err, ret>>

\* Line 35: range(n) is exhausted; return y
Reg_Return ==
  /\ kind = "RegOracle" /\ pc = "loop" /\ i >= n
  /\ ret' = <<y>>
  /\ pc' = "done"
  /\ UNCHANGED <<object, heap, ndraws, seen, X, X_in, reg0, reg1, beta, n, i,
                 y, c_0, c_1, q0, q1, err>>

\* ------------------------------------------- the two linear predictors
\* Mutant of RLT_Call: the weights are drawn again at every predict
RLT_Call_resample ==
  /\ kind = "RandomLinearThresh" /\ Callable
  /\ \E Xin \in Datasets : NewFrame(Xin)
  /\ \E u \in [1..d_arg -> random_sample] :
       heap' = [heap EXCEPT !.fresh = RandomLinearThresh_init(d_arg, u)]
  /\ ndraws' = ndraws + d_arg
  /\ beta' = coefficient /\ reg0' = "none" /\ reg1' = "none"
  /\ pc' = "loop"
  /\ UNCHANGED <<object, seen>>

\* RandomLinearThresh.predict, lines 45-47
RLT_Call ==
  /\ kind = "RandomLinearThresh" /\ Callable
  /\ \E Xin \in Datasets : NewFrame(Xin)
  /\ beta' = coefficient /\ reg0' = "none" /\ reg1' = "none"
  /\ pc' = "loop"
  /\ UNCHANGED <<object, heap, ndraws, seen>>

\* Lines 48-52: one pass of the loop; np.dot raises when the row and beta
\* differ in length
RLT_Iter ==
  /\ kind = "RandomLinearThresh" /\ pc = "loop" /\ i < n
  /\ LET x_i == iloc(X, i)
         dot == np_dot(heap[beta], x_i)
     IN IF dot.raised # "none"
          THEN /\ pc' = "error" /\ err' = dot.raised
               /\ UNCHANGED <<i, y, c_1>>
          ELSE /\ c_1' = dot.v
               /\ y' = Append(y, RLT_label(dot.v))
               /\ i' = i + 1
               /\ UNCHANGED <<pc, err>>
  /\ UNCHANGED <<object, heap, ndraws, seen, X, X_in, reg0, reg1, beta, n,
                 c_0, q0, q1, ret>>

\* Line 53: return y
RLT_Return ==
  /\ kind = "RandomLinearThresh" /\ pc = "loop" /\ i >= n
  /\ ret' = <<y>>
  /\ pc' = "done"
  /\ UNCHANGED <<object, heap, ndraws, seen, X, X_in, reg0, reg1, beta, n, i,
                 y, c_0, c_1, q0, q1, err>>

\* LinearThresh.predict, lines 63-65
LT_Call ==
  /\ kind = "LinearThresh" /\ Callable
  /\ \E Xin \in Datasets : NewFrame(Xin)
  /\ beta' = coefficient /\ reg0' = "none" /\ reg1' = "none"
  /\ pc' = "loop"
  /\ UNCHANGED <<object, heap, ndraws, seen>>

\* Mutant of LT_Iter: the pass also negates the first weight in place
LT_Iter_inplace ==
  /\ kind = "LinearThresh" /\ pc = "loop" /\ i < n
  /\ LET x_i == iloc(X, i)
         dot == np_dot(heap[beta], x_i)
     IN IF dot.raised # "none"
          THEN /\ pc' = "error" /\ err' = dot.raised
               /\ UNCHANGED <<i, y, c_1, heap>>
          ELSE /\ c_1' = dot.v
               /\ y' = Append(y, LT_label(dot.v))
               /\ i' = i + 1
               /\ heap' = [heap EXCEPT !.d[1] = -heap.d[1]]
               /\ UNCHANGED <<pc, err>>
  /\ UNCHANGED <<object, ndraws, seen, X, X_in, reg0, reg1, beta, n,
                 c_0, q0, q1, ret>>

\* Lines 66-70
LT_Iter ==
  /\ kind = "LinearThresh" /\ pc = "loop" /\ i < n
  /\ LET x_i == iloc(X, i)
         dot == np_dot(heap[beta], x_i)
     IN IF dot.raised # "none"
          THEN /\ pc' = "error" /\ err' = dot.raised
               /\ UNCHANGED <<i, y, c_1>>
          ELSE /\ c_1' = dot.v
               /\ y' = Append(y, LT_label(dot.v))
               /\ i' = i + 1
               /\ UNCHANGED <<pc, err>>
  /\ UNCHANGED <<object, heap, ndraws, seen, X, X_in, reg0, reg1, beta, n,
                 c_0, q0, q1, ret>>

\* Line 71: return y
LT_Return ==
  /\ kind = "LinearThresh" /\ pc = "loop" /\ i >= n
  /\ ret' = <<y>>
  /\ pc' = "done"
  /\ UNCHANGED <<object, heap, ndraws, seen, X, X_in, reg0, reg1, beta, n, i,
                 y, c_0, c_1, q0, q1, err>>

\* ------------------------------------------------------------ the caller
\* What the caller of a linear predictor keeps of the first call it saw
\* finish on Example
Remember ==
  IF kind # "RegOracle" /\ X = Example /\ ~seen.set
    THEN [set |-> TRUE, err |-> err, ret |-> ret]
    ELSE seen

\* The call is over (y returned, or an exception raised): control is back
\* in the caller and the frame of predict is gone
EndCall ==
  /\ pc \in {"done", "error"}
  /\ seen' = Remember
  /\ X' = <<>> /\ X_in' = <<>> /\ pc' = "idle"
  /\ reg0' = "none" /\ reg1' = "none" /\ beta' = "none"
  /\ n' = 0 /\ i' = 0 /\ y' = <<>> /\ c_0' = 0 /\ c_1' = 0
  /\ q0' = NoQuery /\ q1' = NoQuery
  /\ err' = "none" /\ ret' = <<>>
  /\ UNCHANGED <<object, heap, ndraws>>

\* ------------------------------------------------------- specification
Next ==
  \/ Reg_Call \/ Pdb_Continue \/ Pdb_Quit
  \/ Reg_Query0 \/ Reg_Query1 \/ Reg_Append \/ Reg_Return
  \/ RLT_Call \/ RLT_Iter \/ RLT_Return
  \/ LT_Call \/ LT_Iter \/ LT_Return
  \/ EndCall

Spec == Init /\ [][Next]_vars

\* ------------------------------------- a caller that keeps its list object
\* The caller of LinearThresh(d) still holds d, the very list object
\* self.coefficient refers to, and between two calls assigns to an element
\* of it (d[k] = v).
Caller_SetItem ==
  /\ kind = "LinearThresh" /\ pc = "idle"
  /\ \E k \in 1..Len(heap.d), v \in CallerWeights :
       /\ v # heap.d[k]
       /\ heap' = [heap EXCEPT !.d[k] = v]
  /\ UNCHANGED <<object, ndraws, seen, X, X_in, pc, reg0, reg1, beta, n, i,
                 y, c_0, c_1, q0, q1, err, ret>>

InitCaller == NoCall /\ InitLinearThresh

NextCaller == LT_Call \/ LT_Iter \/ LT_Return \/ EndCall \/ Caller_SetItem

SpecCaller == InitCaller /\ [][NextCaller]_vars

\* ============================================================ properties
Linear == kind \in {"RandomLinearThresh", "LinearThresh"}
Ended == pc \in {"done", "error"}

\* The dot product of a weight vector and a numeric row of the same length
RECURSIVE Dot(_, _)
Dot(w, r) ==
  IF w = <<>> THEN 0 ELSE Head(w) * Head(r).v + Dot(Tail(w), Tail(r))

Numeric(r) == \A k \in 1..Len(r) : r[k].num

\* The label the contract gives a row under weights w
Sign01(w, r) == IF Dot(w, r) < 0 THEN 1 ELSE 0

\* Whether the linear rule has a value on row r: same length, all numbers
Defined(w, r) == Len(w) = Len(r) /\ Numeric(r)

\* ------------------------------------------------------------------- C1
\* C1: whenever RegOracle.predict has appended the label of a row, that
\* label is 1 exactly when the cost reg1 = b1 answered for that row is
\* strictly less than the cost reg0 = b0 answered for the same row, and 0
\* otherwise (0 on a tie); both answers are answers to that row.
C1_RegOracleLabel ==
  (kind = "RegOracle" /\ pc \in {"loop", "done"} /\ i >= 1) =>
    /\ Len(y) = i
    /\ q0.reg = b0 /\ q1.reg = b1
    /\ q0.row = i - 1 /\ q1.row = i - 1
    /\ q0.arg = <<X_in[i]>> /\ q1.arg = <<X_in[i]>>
    /\ q0.raised = "none" /\ q1.raised = "none"
    /\ (y[i] = 1) <=> (q1.cost < q0.cost)
    /\ (y[i] = 0) <=> (q1.cost >= q0.cost)
    /\ (q1.cost = q0.cost) => (y[i] = 0)

\* A returned RegOracle call whose last row was a tie (label 0) and whose
\* first row had the cheaper alternative (label 1)
C1_Witness ==
  /\ kind = "RegOracle" /\ pc = "done"
  /\ ret = <<<<1, 0>>>>
  /\ q0.cost = q1.cost /\ q1.row = 1

\* ------------------------------------------------------------------- C2
\* C2: a returned call of LinearThresh or RandomLinearThresh gives every
\* row r the label 1 if and only if dot(w, r) < 0 and the label 0
\* otherwise, the same rule for both classes; weights [1, -1] on rows
\* [[2, 1], [1, 2]] give [0, 1].
C2_LinearRule ==
  (Linear /\ pc = "done") =>
    /\ Len(ret) = 1
    /\ Len(ret[1]) = Len(X_in)
    /\ \A k \in 1..Len(X_in) :
         /\ Defined(Beta, X_in[k])
         /\ (ret[1][k] = 1) <=> (Dot(Beta, X_in[k]) < 0)
         /\ (ret[1][k] = 0) <=> (Dot(Beta, X_in[k]) >= 0)
    /\ (X_in = Example /\ Beta = <<Grid, -Grid>>) => ret = <<<<0, 1>>>>

\* LinearThresh([1, -1]).predict([[2, 1], [1, 2]]) has returned [0, 1]
C2_Witness ==
  /\ kind = "LinearThresh" /\ pc = "done"
  /\ Beta = <<Grid, -Grid>> /\ X_in = Example
  /\ ret = <<<<0, 1>>>>

\* ------------------------------------------------------------------- C3
\* C3: in each predictor the loop has appended exactly one label, 0 or 1,
\* per row handled so far, the label at position i being the one computed
\* from input row i; a call that returns returns the n labels of its n
\* rows.
C3_OneLabelPerRow ==
  /\ pc \in {"loop", "q1", "append", "done"} =>
       /\ n = Len(X_in)
       /\ i <= n
       /\ Len(y) = i
       /\ \A k \in 1..Len(y) : y[k] \in {0, 1}
  /\ (pc \in {"loop", "done"} /\ i >= 1 /\ Linear) =>
       /\ c_1 = Dot(Beta, X_in[i])
       /\ y[i] = Sign01(Beta, X_in[i])
  /\ (pc \in {"loop", "done"} /\ i >= 1 /\ kind = "RegOracle") =>
       /\ q0.arg = <<X_in[i]>> /\ q1.arg = <<X_in[i]>>
       /\ c_0 = q0.cost /\ c_1 = q1.cost
       /\ y[i] = (IF c_1 < c_0 THEN 1 ELSE 0)
  /\ pc = "done" => (ret = <<y>> /\ Len(ret[1]) = Len(X_in))
  /\ pc # "done" => ret = <<>>

\* A call on MaxRows rows has returned MaxRows labels, not all the same
C3_Witness ==
  /\ pc = "done" /\ Linear
  /\ Len(X_in) = MaxRows /\ Len(ret[1]) = MaxRows
  /\ ret[1][1] = 1 /\ ret[1][MaxRows] = 0

\* ------------------------------------------------------------------- C4
\* C4 (as amended): RandomLinearThresh(d) holds a weight vector of exactly
\* d entries, each in the half-open interval [-1, 1): 1 is never sampled,
\* -1 can be.
C4_HalfOpenInterval ==
  kind = "RandomLinearThresh" =>
    /\ Len(Beta) = d_arg
    /\ ndraws = d_arg
    /\ \A k \in 1..Len(Beta) : -Grid <= Beta[k] /\ Beta[k] < Grid

\* C4 (as stated): every sampled weight lies strictly inside (-1, 1)
C4_OpenInterval ==
  kind = "RandomLinearThresh" =>
    /\ Len(Beta) = d_arg
    /\ \A k \in 1..Len(Beta) : -Grid < Beta[k] /\ Beta[k] < Grid

\* RandomLinearThresh(MaxCols) was constructed and one of its weights is -1
C4_Witness ==
  /\ kind = "RandomLinearThresh" /\ d_arg = MaxCols /\ Len(Beta) = MaxCols
  /\ \E k \in 1..Len(Beta) : Beta[k] = -Grid
  /\ \E k \in 1..Len(Beta) : Beta[k] > 0

\* ------------------------------------------------------------------- C5
\* C5: a call of a linear predictor on a dataset it was called on before
\* ends as that earlier call ended, with the same labels, whatever calls
\* came in between; no random value is drawn after the constructor.
C5_Deterministic ==
  /\ Linear => ndraws = d_arg
  /\ (Linear /\ Ended /\ X_in = Example /\ seen.set) =>
       (ret = seen.ret /\ err = seen.err)

\* A RandomLinearThresh has returned labels for Example a second time
C5_Witness ==
  /\ kind = "RandomLinearThresh" /\ pc = "done"
  /\ X_in = Example /\ seen.set
  /\ seen.ret = ret /\ ret = <<<<0, 1>>>>

\* ------------------------------------------------------------------- C6
\* C6: whatever predict calls were made and however they ended, the
\* predictor holds the b0, b1 and weight vector it had at the end of its
\* constructor, and during and after a call the dataset passed in is as
\* it was when the call began.
C6_PredictFrame ==
  /\ b0 = b0_init /\ b1 = b1_init
  /\ Beta = coef0
  /\ kind = "RegOracle" => coefficient = "none"
  /\ kind = "RandomLinearThresh" => coefficient = "fresh"
  /\ kind = "LinearThresh" => coefficient = "d"
  /\ X = X_in

\* A LinearThresh call that had appended a label ended in an error
C6_Witness ==
  /\ kind = "LinearThresh" /\ pc = "error"
  /\ Len(y) >= 1 /\ Len(X_in) = MaxRows
  /\ Beta = coef0 /\ X = X_in /\ Beta # <<>>

\* ------------------------------------------------------------------- C7
\* C7: the weight vector belongs to the predictor alone: the labels a
\* linear predictor returns are those of the weights it was constructed
\* with, whatever the caller has done since to the list it passed in.
C7_ExclusiveOwnership ==
  (Linear /\ pc = "done") =>
    \A k \in 1..Len(X_in) : ret[1][k] = Sign01(coef0, X_in[k])

\* ------------------------------------------------------------------- C8
\* C8: rows are handled in order, reg0 before reg1 on each row, and the
\* first exception ends the call: it is the exception the caller gets,
\* nothing is returned, reg1 is not asked about a row on which reg0
\* raised, and no later row is touched.
C8_StopsAtFirstError ==
  /\ pc = "error" => (ret = <<>> /\ err # "none" /\ Len(y) = i /\ i <= n)
  /\ pc # "error" => err = "none"
  /\ (kind = "RegOracle" /\ pc \in {"q1", "append"}) =>
       /\ q0.reg = b0 /\ q0.row = i /\ q0.raised = "none"
       /\ pc = "q1" => (IF i = 0 THEN q1 = NoQuery ELSE q1.row = i - 1)
       /\ pc = "append" => (q1.reg = b1 /\ q1.row = i /\ q1.raised = "none")
  /\ (kind = "RegOracle" /\ pc = "error" /\ err = "BdbQuit") =>
       (i = 0 /\ q0 = NoQuery /\ q1 = NoQuery)
  /\ (kind = "RegOracle" /\ pc = "error" /\ err # "BdbQuit") =>
       /\ err \in ModelErrors
       /\ i < n
       /\ q0.row = i /\ q0.reg = b0
       /\ \/ /\ q0.raised = err
             /\ IF i = 0 THEN q1 = NoQuery
                         ELSE q1.row = i - 1 /\ q1.raised = "none"
          \/ /\ q0.raised = "none"
             /\ q1.row = i /\ q1.reg = b1 /\ q1.raised = err
  /\ (Linear /\ pc = "error") =>
       /\ i < n
       /\ ~Defined(Beta, X_in[i + 1])
       /\ \A k \in 1..i : Defined(Beta, X_in[k])
       /\ err = (IF Len(Beta) # Len(X_in[i + 1]) THEN "ValueError"
                                                  ELSE "TypeError")

\* reg0 raised on the second row: one label had been appended, reg1 was
\* last asked about the first row, and nothing was returned
C8_Witness ==
  /\ kind = "RegOracle" /\ pc = "error"
  /\ i = 1 /\ n = 2 /\ Len(y) = 1
  /\ q0.row = 1 /\ q0.raised = err /\ q1.row = 0
  /\ ret = <<>>

\* ------------------------------------------------------------------- C9
\* C9 (as amended): a linear predictor called on a dataset that has rows,
\* whose rows differ in length from the weight vector, raises on the
\* first row and returns nothing; an empty dataset is no error: the loop
\* body never runs and the call returns the empty label sequence (in
\* RegOracle no regression model is asked and only the debugger's quit
\* can end the call otherwise).
C9_MismatchRaisesEmptyReturns ==
  /\ (Linear /\ Ended /\ Len(X_in) > 0 /\ Len(X_in[1]) # Len(Beta)) =>
       (pc = "error" /\ err = "ValueError" /\ ret = <<>> /\ i = 0 /\ y = <<>>)
  /\ (Linear /\ pc = "loop" /\ Len(X_in) > 0 /\ Len(X_in[1]) # Len(Beta)) =>
       (i = 0 /\ y = <<>>)
  /\ (Linear /\ Ended /\ Len(X_in) = 0) => (pc = "done" /\ ret = <<<<>>>>)
  /\ (kind = "RegOracle" /\ Ended /\ Len(X_in) = 0) =>
       /\ q0 = NoQuery /\ q1 = NoQuery
       /\ (pc = "done" /\ ret = <<<<>>>>) \/ (pc = "error" /\ err = "BdbQuit")

\* C9 (as stated): no call on an empty dataset, and no call of a linear
\* predictor on rows of another length than the weights, returns labels
C9_MalformedNeverReturns ==
  pc = "done" =>
    /\ Len(X_in) > 0
    /\ Linear => Len(X_in[1]) = Len(Beta)

\* LinearThresh with one weight has raised on a dataset of two-column rows
C9_Witness ==
  /\ kind = "LinearThresh" /\ pc = "error" /\ err = "ValueError"
  /\ Len(Beta) = 1 /\ Len(X_in) = MaxRows /\ Len(X_in[1]) = 2
  /\ ret = <<>>

\* ------------------------------------------------------------------ C10
\* C10: no predict call ever stops to wait for an interactive action
C10_NoSuspension == pc # "pdb"

====
